---- MODULE Spec2Model ----
(***************************************************************************)
(* Model of the chat-agent graph of src/agent: supervisor_node decomposes  *)
(* a user request into tasks, sql_agent_node and nosql_agent_node execute  *)
(* the tasks of their kind, SQLAgent runs one generated query per task.    *)
(***************************************************************************)
EXTENDS Integers, Sequences, FiniteSets, TLC

\* ------------------------------------------------------------------ bounds
MaxTasks == 2
MaxPad == 1

\* ------------------------------------------------------- values of the data
None == "None"

\* the agent tags the supervisor prompt names (nodes.py:127) and one it does not
Agents == {"sql_agent", "nosql_agent", "drive_agent", "unknown_kind"}
\* the closed enumeration of the prompt
PromptAgents == {"sql_agent", "nosql_agent", "drive_agent"}
\* the kinds an executor stage filters for
RegisteredAgents == {"sql_agent", "nosql_agent"}
\* priorities the language model may emit: inside and outside the prompt's 1-5
Priorities == {1, 5, 6}
MinPriority == 1
MaxPriority == 5

TaskIdx == 0 .. (MaxTasks - 1)
DependencyLists == {<<>>} \cup {<<k>> : k \in TaskIdx}

\* A task dict of the decomposition output.  idx is the position at which the
\* language model emitted the task and stands for its taskDefinition/purpose
\* text; hasDef is FALSE when the dict has no "taskDefinition" key.
TaskAt(i) ==
    [idx : {i}, agent : Agents, priority : Priorities,
     dependencies : DependencyLists, hasDef : BOOLEAN]

\* a task as the prompt asks for it, of a kind that has an executor stage and
\* with no dependency
Plain(t) ==
    /\ t.agent \in RegisteredAgents
    /\ t.priority \in MinPriority .. MaxPriority
    /\ t.dependencies = <<>>
    /\ t.hasDef
PlainTasksAt(i) == {t \in TaskAt(i) : Plain(t)}
\* any other task
SpecialTasksAt(i) == {t \in TaskAt(i) : ~Plain(t)}

\* the task lists of n tasks, in emission order, with at most one special
\* task (none unless special is TRUE)
RECURSIVE TaskListsOfLen(_, _)
TaskListsOfLen(n, special) ==
    IF n = 0 THEN {<<>>}
    ELSE {Append(ts, t) : ts \in TaskListsOfLen(n - 1, special),
                          t \in PlainTasksAt(n - 1)}
         \cup (IF special
               THEN {Append(ts, t) : ts \in TaskListsOfLen(n - 1, FALSE),
                                     t \in SpecialTasksAt(n - 1)}
               ELSE {})

\* the task lists of the language model
TaskLists == UNION {TaskListsOfLen(n, TRUE) : n \in 0 .. MaxTasks}

PlainTask == [idx |-> 0, agent |-> "sql_agent", priority |-> 1,
              dependencies |-> <<>>, hasDef |-> TRUE]

\* what json.loads(response.content) and the key lookups of supervisor_node
\* can meet: text that is no JSON, JSON lacking a key the supervisor reads,
\* or a JSON object with all of them
DefectShapes == {"no_tasks", "no_priority", "no_context", "no_error_handling",
                 "no_agent"}
Unparseable == [shape |-> "unparseable", tasks |-> <<>>]
Responses ==
    {Unparseable}
    \cup {[shape |-> s, tasks |-> <<PlainTask>>] : s \in DefectShapes}
    \cup {[shape |-> "ok", tasks |-> ts] : ts \in TaskLists}

NoResponse == [shape |-> None, tasks |-> <<>>]

\* ---------------------------------------------------------------- sorting
\* the same with ties reversed: what sorted(...)[::-1] of an ascending sort gives
RECURSIVE InsertByPriorityUnstable(_, _)
InsertByPriorityUnstable(sorted, t) ==
    IF sorted = <<>> THEN <<t>>
    ELSE IF Head(sorted).priority > t.priority
         THEN <<Head(sorted)>> \o InsertByPriorityUnstable(Tail(sorted), t)
         ELSE <<t>> \o sorted

\* sorted(tasks, key=priority, reverse=True): a stable sort, so a task goes
\* behind every task of greater or equal priority that was emitted before it
RECURSIVE InsertByPriority(_, _)
InsertByPriority(sorted, t) ==
    IF sorted = <<>> THEN <<t>>
    ELSE IF Head(sorted).priority >= t.priority
         THEN <<Head(sorted)>> \o InsertByPriority(Tail(sorted), t)
         ELSE <<t>> \o sorted

RECURSIVE SortedTasksFrom(_, _)
SortedTasksFrom(acc, ts) ==
    IF ts = <<>> THEN acc
    ELSE SortedTasksFrom(InsertByPriority(acc, Head(ts)), Tail(ts))

sorted_tasks(ts) == SortedTasksFrom(<<>>, ts)


\* ------------------------------------------------------------ query text
\* A query text is a sequence of one-character strings.
Whitespace == {" ", "\n"}
UpperChars == <<"S", "E", "L", "C", "T", "P", "R", "A", "G", "M", "X",
                "I", "N", "U", "D", "W", "H">>
LowerChars == <<"s", "e", "l", "c", "t", "p", "r", "a", "g", "m", "x",
                "i", "n", "u", "d", "w", "h">>

\* str.upper() and str.lower(), character by character
UpperChar(c) ==
    IF \E i \in DOMAIN LowerChars : LowerChars[i] = c
    THEN UpperChars[CHOOSE i \in DOMAIN LowerChars : LowerChars[i] = c]
    ELSE c
LowerChar(c) ==
    IF \E i \in DOMAIN UpperChars : UpperChars[i] = c
    THEN LowerChars[CHOOSE i \in DOMAIN UpperChars : UpperChars[i] = c]
    ELSE c
upper(s) == [i \in DOMAIN s |-> UpperChar(s[i])]
lower(s) == [i \in DOMAIN s |-> LowerChar(s[i])]

\* str.strip(): leading and trailing whitespace removed
RECURSIVE lstrip(_)
lstrip(s) ==
    IF s # <<>> /\ Head(s) \in Whitespace THEN lstrip(Tail(s)) ELSE s
RECURSIVE rstrip(_)
rstrip(s) ==
    IF s # <<>> /\ s[Len(s)] \in Whitespace
    THEN rstrip(SubSeq(s, 1, Len(s) - 1)) ELSE s
strip(s) == rstrip(lstrip(s))

startswith(s, prefix) ==
    Len(s) >= Len(prefix) /\ SubSeq(s, 1, Len(prefix)) = prefix

SELECT == <<"S", "E", "L", "E", "C", "T">>
PRAGMA == <<"P", "R", "A", "G", "M", "A">>
EXPLAIN == <<"E", "X", "P", "L", "A", "I", "N">>
INSERT == <<"I", "N", "S", "E", "R", "T">>
UPDATE == <<"U", "P", "D", "A", "T", "E">>
DELETE == <<"D", "E", "L", "E", "T", "E">>
WithKw == <<"W", "I", "T", "H">>
Keywords == {SELECT, PRAGMA, EXPLAIN, INSERT, UPDATE, DELETE, WithKw}

RECURSIVE Pad(_)
Pad(n) == IF n = 0 THEN <<>> ELSE <<" ">> \o Pad(n - 1)

\* the query texts the language model may generate: a statement in either
\* case with leading and trailing blanks, a truncated keyword, an empty text
Statements ==
    {kw \o <<" ", "x">> : kw \in Keywords}
    \cup {lower(kw) \o <<"\n", "x">> : kw \in Keywords}
    \cup {<<>>, <<"S", "E", "L">>}
QueryTexts ==
    {Pad(n) \o st \o Pad(m) : n \in 0 .. MaxPad, m \in 0 .. MaxPad,
                              st \in Statements}
\* the texts generated for the tasks of a batch
PipelineQueries ==
    {lower(SELECT) \o <<" ", "x">>, <<" ">> \o EXPLAIN \o <<" ", "x">>,
     INSERT \o <<" ", "x">>}

\* SQLAgent._is_read_query
is_read_query(sql) ==
    LET normalized_sql == upper(strip(sql))
    IN  \/ startswith(normalized_sql, SELECT)
        \/ startswith(normalized_sql, PRAGMA)
        \/ startswith(normalized_sql, EXPLAIN)

\* the test of _execute_and_fetch: startswith(('SELECT', 'PRAGMA'))
fetches_rows(sql) ==
    LET normalized_sql == upper(strip(sql))
    IN  \/ startswith(normalized_sql, SELECT)
        \/ startswith(normalized_sql, PRAGMA)

\* the dict _execute_and_fetch returns once cursor.execute has succeeded;
\* committed tells whether conn.commit() ran
execute_and_fetch(sql) ==
    IF fetches_rows(sql)
    THEN [status |-> "success", payload |-> "results", committed |-> FALSE]
    ELSE [status |-> "success", payload |-> "message", committed |-> TRUE]

\* the dict of the except branch of SQLAgent.execute_query
query_error == [status |-> "error", payload |-> "error", committed |-> FALSE]


\* ------------------------------------------------------------------ state
VARIABLES
    supPc,             \* position of supervisor_node
    schema_context,    \* the dict get_schema_context returned (None outside the node)
    response,          \* the content the language model returned to the supervisor
    messages,          \* the "messages" channel of the graph state: message contents
    openConns,         \* the store connections that are open
    sqlPc,             \* position of sql_agent_node
    sql_task_analysis, \* its task_analysis
    sql_tasks,         \* its sql_tasks
    sqlIdx,            \* index (from 1) of the task its loop is at
    sql_query,         \* whether a query text is generated for that task (the
                       \* text itself is drawn when it is executed)
    sql_results,       \* its results
    sqlOut,            \* the content of the message it returned
    nosqlPc,           \* position of nosql_agent_node
    nosql_task_analysis,
    nosql_tasks,
    nosqlIdx,
    nosql_results,
    nosqlOut,
    graphPc,           \* the graph run: "running", or how its last step ended
    qPc,               \* classification of one query text: position
    qText,             \* the text
    qHelper,           \* what _is_read_query answered for it
    qExec              \* what _execute_and_fetch returned for it

supVars == <<supPc, schema_context, response, messages>>
sqlVars == <<sqlPc, sql_task_analysis, sql_tasks, sqlIdx, sql_query,
             sql_results, sqlOut>>
nosqlVars == <<nosqlPc, nosql_task_analysis, nosql_tasks, nosqlIdx,
               nosql_results, nosqlOut>>
qVars == <<qPc, qText, qHelper, qExec>>
vars == <<supVars, openConns, sqlVars, nosqlVars, graphPc, qVars>>

UserMessage == [role |-> "user", text |-> "utterance"]

\* the fatal error object of the three nodes
ErrorObject(prefix) == [status |-> "error", error |-> prefix, retry_count |-> 0]

IsErrorObject(m) ==
    /\ DOMAIN m = {"status", "error", "retry_count"}
    /\ m.status = "error"
    /\ m.retry_count = 0

Last(seq) == seq[Len(seq)]

PipelineInit ==
    /\ supPc = "start"
    /\ schema_context = None
    /\ response = NoResponse
    /\ messages = <<UserMessage>>
    /\ openConns = {}
    /\ sqlPc = "wait"
    /\ sql_task_analysis = None
    /\ sql_tasks = <<>>
    /\ sqlIdx = 1
    /\ sql_query = None
    /\ sql_results = <<>>
    /\ sqlOut = None
    /\ nosqlPc = "wait"
    /\ nosql_task_analysis = None
    /\ nosql_tasks = <<>>
    /\ nosqlIdx = 1
    /\ nosql_results = <<>>
    /\ nosqlOut = None
    /\ graphPc = "running"

NotExecuted == [status |-> None, payload |-> None, committed |-> FALSE]

QueryIdle ==
    /\ qPc = "idle"
    /\ qText = <<>>
    /\ qHelper = None
    /\ qExec = NotExecuted

Init == PipelineInit /\ QueryIdle

\* GeneralizedNoSQLAgent (its module is not part of the sources): the agent
\* holds a session with the document store from its construction to close()
NoSQLAgentOpen(conns, name) == conns \cup {name}
NoSQLAgentClose(conns, name) == conns \ {name}

\* ------------------------------------------------------------- supervisor
\* get_mongo_schema: the schemas, or {} when anything raised
get_mongo_schema(raised) ==
    IF raised THEN [raised |-> FALSE, value |-> "{}"]
    ELSE [raised |-> FALSE, value |-> "schemas"]

\* get_schema_context without its except branch
get_schema_context_unguarded(sqlRaised, mongo) ==
    IF sqlRaised \/ mongo.raised
    THEN [raised |-> TRUE, value |-> None]
    ELSE [raised |-> FALSE,
          value |-> [sql_schema |-> "schema", nosql_schemas |-> mongo.value]]

\* get_schema_context: both schemas, or the placeholder dict when
\* get_table_schema (or get_mongo_schema) raised
get_schema_context(sqlRaised, mongo) ==
    IF sqlRaised \/ mongo.raised
    THEN [raised |-> FALSE,
          value |-> [sql_schema |-> "Error retrieving SQL schema",
                     nosql_schemas |-> "Error retrieving NoSQL schemas",
                     error |-> "error"]]
    ELSE [raised |-> FALSE,
          value |-> [sql_schema |-> "schema", nosql_schemas |-> mongo.value]]

\* the except branch of supervisor_node
SupervisorError == ErrorObject("Failed to analyze query")

\* what the supervisor does with the dict get_schema_context handed it, or
\* with the exception it let through
SupAfterSchema(ctx) ==
    IF ctx.raised
    THEN /\ supPc' = "done"
         /\ schema_context' = None
         /\ messages' = <<SupervisorError>>
    ELSE /\ supPc' = "llm"
         /\ schema_context' = ctx.value
         /\ messages' = messages

\* get_table_schema(db_path) under get_sqlite_connection: the connection is
\* closed by the finally of the context manager whatever happens inside
SupGetTableSchema ==
    /\ supPc = "start"
    /\ \E outcome \in {"ok", "connect_raises", "execute_raises"} :
          IF outcome = "ok"
          THEN /\ supPc' = "mongo"
               /\ UNCHANGED <<schema_context, messages>>
          ELSE SupAfterSchema(get_schema_context(TRUE, get_mongo_schema(FALSE)))
    /\ UNCHANGED <<response, openConns, sqlVars, nosqlVars, qVars, graphPc>>

\* get_mongo_schema, line 54: GeneralizedNoSQLAgent()
SupMongoConnect ==
    /\ supPc = "mongo"
    /\ \E outcome \in {"ok", "raises"} :
          IF outcome = "ok"
          THEN /\ supPc' = "mongo_ops"
               /\ openConns' = NoSQLAgentOpen(openConns, "mongo_schema")
               /\ UNCHANGED <<schema_context, messages>>
          ELSE /\ SupAfterSchema(get_schema_context(FALSE, get_mongo_schema(TRUE)))
               /\ UNCHANGED openConns
    /\ UNCHANGED <<response, sqlVars, nosqlVars, qVars, graphPc>>

\* get_mongo_schema, lines 55-65: list_databases, use_database,
\* get_all_schemas, then close(); an exception skips the close()
SupMongoSchema ==
    /\ supPc = "mongo_ops"
    /\ \E outcome \in {"ok", "raises"} :
          /\ openConns' = IF outcome = "ok"
                          THEN NoSQLAgentClose(openConns, "mongo_schema")
                          ELSE openConns
          /\ SupAfterSchema(
                get_schema_context(FALSE, get_mongo_schema(outcome = "raises")))
    /\ UNCHANGED <<response, sqlVars, nosqlVars, qVars, graphPc>>

\* llm.invoke(messages)
SupInvokeLLM ==
    /\ supPc = "llm"
    /\ \E r \in Responses : response' = r
    /\ supPc' = "parse"
    /\ UNCHANGED <<schema_context, messages, openConns, sqlVars, nosqlVars,
                   qVars, graphPc>>

\* json.loads and the key lookups of lines 154-172 raise
SupervisorRaises(r) ==
    \/ r.shape \in {"unparseable", "no_tasks", "no_context", "no_error_handling"}
    \/ r.shape \in {"no_priority", "no_agent"} /\ r.tasks # <<>>

\* the content of the message supervisor_node returns for a response
SupervisorOutput(r) ==
    IF SupervisorRaises(r) THEN SupervisorError
    ELSE LET sorted == sorted_tasks(r.tasks)
         IN  [tasks |-> sorted,
              context |-> "context",
              current_task_index |-> 0,
              error_handling |-> "error_handling",
              analysis |->
                [total_tasks |-> Len(sorted),
                 task_types |-> {sorted[i].agent : i \in DOMAIN sorted},
                 highest_priority_task |->
                    IF sorted # <<>> THEN <<sorted[1]>> ELSE <<>>]]

\* lines 154-193; the returned "messages" replaces the channel, which has no reducer
SupDecompose ==
    /\ supPc = "parse"
    /\ messages' = <<SupervisorOutput(response)>>
    /\ schema_context' = None
    /\ supPc' = "done"
    /\ UNCHANGED <<response, openConns, sqlVars, nosqlVars, qVars, graphPc>>


\* -------------------------------------------------------- executor stages
\* The content of a message is kept as the object json.dumps encoded: the
\* objects here are made of JSON values only, which json.loads gives back.

HasTasks(m) == "tasks" \in DOMAIN m

\* [task for task in task_analysis["tasks"] if task["agent"] == kind]
RECURSIVE TasksOf(_, _)
TasksOf(kind, ts) ==
    IF ts = <<>> THEN <<>>
    ELSE IF Head(ts).agent = kind
         THEN <<Head(ts)>> \o TasksOf(kind, Tail(ts))
         ELSE TasksOf(kind, Tail(ts))

\* the entries of a results list
ResultEntry(task, result) == [task |-> task, result |-> result]
ErrorEntry(task, error) == [task |-> task, error |-> error]

\* the entry sql_agent_node appends for the dict execute_query returned
\* (lines 216-220: any dict is a "result", also the error dict)
SqlEntry(task, result) == ResultEntry(task, result)

\* what a stage would find in the channel if the message a stage returns were
\* written to it at once
ChannelSeenEagerly(stage) ==
    IF stage = "sql_agent_node" /\ nosqlPc = "done" THEN <<nosqlOut>>
    ELSE IF stage = "nosql_agent_node" /\ sqlPc = "done" THEN <<sqlOut>>
    ELSE messages

\* state["messages"] as a stage finds it.  Both stages hang on the edge from
\* supervisor_node, so they run in one step of the graph, and the channel
\* holds what the step before left in it until the step has ended.
ChannelSeenBy(stage) == messages

\* lines 198-208
SqlStart ==
    /\ supPc = "done"
    /\ sqlPc = "wait"
    /\ LET task_analysis == Last(ChannelSeenBy("sql_agent_node"))
       IN  /\ sql_task_analysis' = task_analysis
           /\ IF HasTasks(task_analysis)
              THEN /\ sql_tasks' = TasksOf("sql_agent", task_analysis.tasks)
                   /\ sqlPc' = "loop"
                   /\ sqlOut' = sqlOut
              ELSE /\ sql_tasks' = sql_tasks
                   /\ sqlPc' = "done"
                   /\ sqlOut' = ErrorObject("Failed to process SQL tasks")
    /\ UNCHANGED <<sqlIdx, sql_query, sql_results>>
    /\ UNCHANGED <<supVars, openConns, nosqlVars, qVars, graphPc>>

\* lines 211-214, _generate_sql_query and the sqlite3.connect of
\* _get_connection: task["taskDefinition"] is looked up (a KeyError is an
\* "error" entry of the node), the schema is fetched under its own connection,
\* the language model is asked for the query text and the connection of
\* _execute_and_fetch is opened; an exception of any of the three is caught
\* by execute_query and returned as its error dict
SqlGenerateQuery ==
    /\ sqlPc = "loop"
    /\ sqlIdx <= Len(sql_tasks)
    /\ LET task == sql_tasks[sqlIdx]
       IN  IF ~task.hasDef
           THEN /\ sql_results' = Append(sql_results, ErrorEntry(task, "taskDefinition"))
                /\ sqlIdx' = sqlIdx + 1
                /\ UNCHANGED <<sqlPc, sql_query, openConns>>
           ELSE \E outcome \in {"ok", "raises"} :
                   IF outcome = "raises"
                   THEN /\ sql_results' = Append(sql_results, SqlEntry(task, query_error))
                        /\ sqlIdx' = sqlIdx + 1
                        /\ UNCHANGED <<sqlPc, sql_query, openConns>>
                   ELSE /\ sql_query' = "generated"
                        /\ openConns' = openConns \cup {"sql_exec"}
                        /\ sqlPc' = "execute"
                        /\ UNCHANGED <<sql_results, sqlIdx>>
    /\ UNCHANGED <<sql_task_analysis, sql_tasks, sqlOut>>
    /\ UNCHANGED <<supVars, nosqlVars, qVars, graphPc>>

\* _execute_and_fetch, lines 74-96, and the finally of _get_connection
SqlExecuteAndFetch ==
    /\ sqlPc = "execute"
    /\ \E generated_query \in PipelineQueries, outcome \in {"ok", "raises"} :
          sql_results' =
             Append(sql_results,
                    SqlEntry(sql_tasks[sqlIdx],
                             IF outcome = "ok"
                             THEN execute_and_fetch(generated_query)
                             ELSE query_error))
    /\ openConns' = openConns \ {"sql_exec"}
    /\ sqlIdx' = sqlIdx + 1
    /\ sql_query' = None
    /\ sqlPc' = "loop"
    /\ UNCHANGED <<sql_task_analysis, sql_tasks, sqlOut>>
    /\ UNCHANGED <<supVars, nosqlVars, qVars, graphPc>>

\* lines 235-251
SqlFinish ==
    /\ sqlPc = "loop"
    /\ sqlIdx > Len(sql_tasks)
    /\ sqlOut' = [status |-> "success",
                  sql_results |-> sql_results,
                  original_analysis |-> sql_task_analysis]
    /\ sqlPc' = "done"
    /\ UNCHANGED <<sql_task_analysis, sql_tasks, sqlIdx, sql_query, sql_results>>
    /\ UNCHANGED <<supVars, openConns, nosqlVars, qVars, graphPc>>

\* lines 272-283: the agent is constructed before the tasks are looked up,
\* and the except branch of the node does not close it
NosqlStart ==
    /\ supPc = "done"
    /\ nosqlPc = "wait"
    /\ LET task_analysis == Last(ChannelSeenBy("nosql_agent_node"))
       IN  /\ nosql_task_analysis' = task_analysis
           /\ \E outcome \in {"ok", "raises"} :
                 IF outcome = "raises"
                 THEN /\ nosqlPc' = "done"
                      /\ nosqlOut' = ErrorObject("Failed to process NoSQL tasks")
                      /\ UNCHANGED <<nosql_tasks, openConns>>
                 ELSE /\ openConns' = NoSQLAgentOpen(openConns, "nosql")
                      /\ IF HasTasks(task_analysis)
                         THEN /\ nosql_tasks' =
                                    TasksOf("nosql_agent", task_analysis.tasks)
                              /\ nosqlPc' = "loop"
                              /\ nosqlOut' = nosqlOut
                         ELSE /\ nosql_tasks' = nosql_tasks
                              /\ nosqlPc' = "done"
                              /\ nosqlOut' =
                                    ErrorObject("Failed to process NoSQL tasks")
    /\ UNCHANGED <<nosqlIdx, nosql_results>>
    /\ UNCHANGED <<supVars, sqlVars, qVars, graphPc>>

\* GeneralizedNoSQLAgent.execute_query: the payload dict, or an exception
NosqlOutcomes == {"dict", "raises"}

\* lines 287-312 (the branch for a result that is no dict is not taken)
NosqlEntry(task, outcome) ==
    IF outcome = "dict"
    THEN ResultEntry(task, [status |-> "success", payload |-> "documents",
                            committed |-> FALSE])
    ELSE ErrorEntry(task, "exception")

NosqlExecute ==
    /\ nosqlPc = "loop"
    /\ nosqlIdx <= Len(nosql_tasks)
    /\ LET task == nosql_tasks[nosqlIdx]
       IN  IF ~task.hasDef
           THEN nosql_results' =
                   Append(nosql_results, ErrorEntry(task, "taskDefinition"))
           ELSE \E outcome \in NosqlOutcomes :
                   nosql_results' = Append(nosql_results, NosqlEntry(task, outcome))
    /\ nosqlIdx' = nosqlIdx + 1
    /\ UNCHANGED <<nosqlPc, nosql_task_analysis, nosql_tasks, nosqlOut>>
    /\ UNCHANGED <<supVars, openConns, sqlVars, qVars, graphPc>>

\* lines 314-330
NosqlFinish ==
    /\ nosqlPc = "loop"
    /\ nosqlIdx > Len(nosql_tasks)
    /\ openConns' = NoSQLAgentClose(openConns, "nosql")
    /\ nosqlOut' = [status |-> "success",
                    nosql_results |-> nosql_results,
                    original_analysis |-> nosql_task_analysis]
    /\ nosqlPc' = "done"
    /\ UNCHANGED <<nosql_task_analysis, nosql_tasks, nosqlIdx, nosql_results>>
    /\ UNCHANGED <<supVars, sqlVars, qVars, graphPc>>

\* The step of the two stages ends when both have returned.  Each returned a
\* value for "messages", a channel InputState declares without a reducer, and
\* such a channel takes one value per step: the run ends with an
\* InvalidUpdateError and the channel keeps the supervisor's message.
GraphEndStep ==
    /\ graphPc = "running"
    /\ sqlPc = "done"
    /\ nosqlPc = "done"
    /\ graphPc' = "invalid_update"
    /\ UNCHANGED <<supVars, openConns, sqlVars, nosqlVars, qVars>>

Next ==
    \/ SupGetTableSchema
    \/ SupMongoConnect
    \/ SupMongoSchema
    \/ SupInvokeLLM
    \/ SupDecompose
    \/ SqlStart
    \/ SqlGenerateQuery
    \/ SqlExecuteAndFetch
    \/ SqlFinish
    \/ NosqlStart
    \/ NosqlExecute
    \/ NosqlFinish
    \/ GraphEndStep

Spec == Init /\ [][Next]_vars

\* ------------------------------------------------- query classification
\* One generated query text, given to _is_read_query and to the execution
\* path of execute_query, in either order.
QueryInit ==
    /\ PipelineInit
    /\ qPc = "generated"
    /\ qText \in QueryTexts
    /\ qHelper = None
    /\ qExec = NotExecuted

QClassify ==
    /\ qHelper = None
    /\ qPc \in {"generated", "executed"}
    /\ qHelper' = IF is_read_query(qText) THEN "read" ELSE "write"
    /\ UNCHANGED <<qPc, qText, qExec>>
    /\ UNCHANGED <<supVars, openConns, sqlVars, nosqlVars, graphPc>>

\* cursor.execute(sql_query) succeeds or raises
QExecute ==
    /\ qPc = "generated"
    /\ \E outcome \in {"ok", "raises"} :
          qExec' = IF outcome = "ok" THEN execute_and_fetch(qText)
                   ELSE query_error
    /\ qPc' = "executed"
    /\ UNCHANGED <<qText, qHelper>>
    /\ UNCHANGED <<supVars, openConns, sqlVars, nosqlVars, graphPc>>

QueryNext == QClassify \/ QExecute

QuerySpec == QueryInit /\ [][QueryNext]_vars


\* ------------------------------------------------------ terms of the claims
SupDone == supPc = "done"
Decomposition == Last(messages)
\* the supervisor emitted a task list
Emitted == SupDone /\ HasTasks(Decomposition)
InputTasks == response.tasks
OutputTasks == Decomposition.tasks

\* execute_query has been called for the task
SqlDispatched(t) ==
    \E p \in DOMAIN sql_tasks :
       /\ sql_tasks[p] = t
       /\ t.hasDef
       /\ p < sqlIdx \/ (p = sqlIdx /\ sqlPc = "execute")
NosqlDispatched(t) ==
    \E p \in DOMAIN nosql_tasks :
       nosql_tasks[p] = t /\ t.hasDef /\ p < nosqlIdx
Dispatched(t) == SqlDispatched(t) \/ NosqlDispatched(t)

\* a TaskResult of the task with emission index k exists
HasResult(k) ==
    \/ \E i \in DOMAIN sql_results : sql_results[i].task.idx = k
    \/ \E i \in DOMAIN nosql_results : nosql_results[i].task.idx = k

\* the schema of section 3 of the specification: priority in 1..5, agent of
\* the enumeration, dependencies on earlier tasks only, every key present
ValidTask(t, n) ==
    /\ t.priority \in MinPriority .. MaxPriority
    /\ t.agent \in PromptAgents
    /\ t.hasDef
    /\ \A d \in DOMAIN t.dependencies :
          t.dependencies[d] \in 0 .. (n - 1) /\ t.dependencies[d] < t.idx
ValidBatch(ts) == \A i \in DOMAIN ts : ValidTask(ts[i], Len(ts))
AllRegistered(ts) == \A i \in DOMAIN ts : ts[i].agent \in RegisteredAgents

BothStagesDone == sqlPc = "done" /\ nosqlPc = "done"
BothReported ==
    /\ BothStagesDone
    /\ "sql_results" \in DOMAIN sqlOut
    /\ "nosql_results" \in DOMAIN nosqlOut

\* the entries of both reports
ReportedEntries ==
    {sqlOut.sql_results[i] : i \in DOMAIN sqlOut.sql_results}
    \cup {nosqlOut.nosql_results[i] : i \in DOMAIN nosqlOut.nosql_results}
IsFailureEntry(e) == "error" \in DOMAIN e /\ "result" \notin DOMAIN e
\* the task of the entry failed while it was executed
TaskFailed(e) ==
    IF "error" \in DOMAIN e THEN TRUE ELSE e.result.status = "error"

\* ----------------------------------------------------------------- claims

\* C1: whenever the supervisor emits a task list, it is a permutation of the
\* tasks of the decomposition output (same length, every input task exactly
\* once), its priorities are descending, and two tasks of equal priority are
\* in the order in which they were emitted.
C1_SortIsStablePermutation ==
    Emitted =>
       /\ Len(OutputTasks) = Len(InputTasks)
       /\ \A i \in DOMAIN InputTasks :
             Cardinality({j \in DOMAIN OutputTasks :
                             OutputTasks[j] = InputTasks[i]}) = 1
       /\ \A i, j \in DOMAIN OutputTasks :
             i < j => OutputTasks[i].priority >= OutputTasks[j].priority
       /\ \A i, j \in DOMAIN OutputTasks :
             (i < j /\ OutputTasks[i].priority = OutputTasks[j].priority)
                => OutputTasks[i].idx < OutputTasks[j].idx

\* a task list of two tasks of equal priority has been emitted
C1_Witness ==
    /\ Emitted
    /\ Len(OutputTasks) = MaxTasks
    /\ \E i, j \in DOMAIN OutputTasks :
          i < j /\ OutputTasks[i].priority = OutputTasks[j].priority

\* C2: in a batch that is valid, a task that declares a dependency on index k
\* is not dispatched to its executor while task k has no TaskResult.
C2_DependencyBeforeDispatch ==
    (Emitted /\ ValidBatch(InputTasks) /\ AllRegistered(InputTasks)) =>
       \A i \in DOMAIN OutputTasks :
          LET t == OutputTasks[i]
          IN  Dispatched(t) =>
                 \A d \in DOMAIN t.dependencies : HasResult(t.dependencies[d])

\* C3: when both stages have reported on a valid batch of registered kinds
\* in which exactly one task failed, both reports have status success, there
\* is one TaskResult per task, and exactly one of them is a Failure, an entry
\* with an error and no result.
C3_OneFailureIsolated ==
    ( /\ Emitted /\ ValidBatch(InputTasks) /\ AllRegistered(InputTasks)
      /\ BothReported
      /\ Cardinality({e \in ReportedEntries : TaskFailed(e)}) = 1 ) =>
       /\ sqlOut.status = "success"
       /\ nosqlOut.status = "success"
       /\ Len(sqlOut.sql_results) + Len(nosqlOut.nosql_results) = Len(InputTasks)
       /\ Cardinality({e \in ReportedEntries : IsFailureEntry(e)}) = 1

\* C4: when both stages have reported on a batch whose tasks have all their
\* keys, every task whose agent no stage is registered for has a Failure
\* TaskResult "no executor available" in a report, and every other task has a
\* TaskResult.
C4_UnregisteredKindRecorded ==
    ( /\ Emitted /\ BothReported
      /\ \A i \in DOMAIN InputTasks : InputTasks[i].hasDef ) =>
       \A i \in DOMAIN OutputTasks :
          LET t == OutputTasks[i]
          IN  IF t.agent \in RegisteredAgents
              THEN \E e \in ReportedEntries : e.task = t
              ELSE \E e \in ReportedEntries :
                      /\ e.task = t
                      /\ IsFailureEntry(e)
                      /\ e.error = "no executor available"

\* the decomposition output cannot be parsed or lacks a key of the shape of
\* section 6 of the specification
LacksRequiredShape(r) ==
    \/ r.shape # "ok"
    \/ \E i \in DOMAIN r.tasks : ~r.tasks[i].hasDef

\* C5: when the decomposition output cannot be parsed or lacks the required
\* shape, the supervisor emits the fatal error object, no task is dispatched,
\* and each stage that has returned has returned a fatal error object.
C5_MalformedOutputIsFatal ==
    (SupDone /\ LacksRequiredShape(response)) =>
       /\ IsErrorObject(Decomposition)
       /\ sql_results = <<>> /\ sqlPc # "execute"
       /\ nosql_results = <<>>
       /\ sqlPc = "done" => IsErrorObject(sqlOut)
       /\ nosqlPc = "done" => IsErrorObject(nosqlOut)

\* C6: a decomposition output (with all its keys) with a task whose priority
\* is outside 1..5, whose agent is outside the enumeration or whose dependency
\* is out of range, on itself or on a later task is answered by the fatal
\* error object, and no task of it is sorted, emitted or dispatched.
C6_InvalidBatchRejected ==
    ( /\ SupDone
      /\ response.shape = "ok"
      /\ \A i \in DOMAIN InputTasks : InputTasks[i].hasDef
      /\ \E i \in DOMAIN InputTasks :
            LET t == InputTasks[i]
            IN  \/ t.priority \notin MinPriority .. MaxPriority
                \/ t.agent \notin PromptAgents
                \/ \E d \in DOMAIN t.dependencies :
                      \/ t.dependencies[d] \notin 0 .. (Len(InputTasks) - 1)
                      \/ t.dependencies[d] >= t.idx ) =>
       /\ IsErrorObject(Decomposition)
       /\ sql_results = <<>> /\ sqlPc # "execute"
       /\ nosql_results = <<>>

\* a's TaskResult is before b's in one of the reported results lists
ReportedBefore(a, b) ==
    \/ \E i, j \in DOMAIN sqlOut.sql_results :
          /\ i < j
          /\ sqlOut.sql_results[i].task = a
          /\ sqlOut.sql_results[j].task = b
    \/ \E i, j \in DOMAIN nosqlOut.nosql_results :
          /\ i < j
          /\ nosqlOut.nosql_results[i].task = a
          /\ nosqlOut.nosql_results[j].task = b

\* C7: for two tasks a before b in the Scheduler's output of a valid batch of
\* registered kinds, b is not dispatched before a, and once both stages have
\* reported a's TaskResult is before b's in the reported results.
C7_SchedulerOrderKept ==
    (Emitted /\ ValidBatch(InputTasks) /\ AllRegistered(InputTasks)) =>
       \A i, j \in DOMAIN OutputTasks :
          i < j =>
             /\ Dispatched(OutputTasks[j]) => Dispatched(OutputTasks[i])
             /\ BothReported => ReportedBefore(OutputTasks[i], OutputTasks[j])

\* C8: no connection is open once the stage that opened it has returned: not
\* the one of schema retrieval after the supervisor, not the one of a query
\* between two tasks or after the structured stage, not the one of the
\* document stage after it.
C8_ConnectionsReleased ==
    /\ SupDone => "mongo_schema" \notin openConns
    /\ sqlPc \in {"wait", "loop", "done"} => "sql_exec" \notin openConns
    /\ nosqlPc = "done" => "nosql" \notin openConns

\* the classification of the specification: trimmed and uppercased, the text
\* starts with SELECT, PRAGMA or EXPLAIN
StartsWithReadKeyword(text) ==
    \E kw \in {SELECT, PRAGMA, EXPLAIN} : startswith(upper(strip(text)), kw)

\* C9: a query that executed is treated as read-only (row data, no commit)
\* exactly when its trimmed, uppercased text starts with SELECT, PRAGMA or
\* EXPLAIN, and as mutating (commit, affected-row message) otherwise; and
\* _is_read_query answers the same as the execution path.
C9_ClassificationAgrees ==
    (qPc = "executed" /\ qExec.status = "success") =>
       /\ StartsWithReadKeyword(qText) =>
             qExec.payload = "results" /\ ~qExec.committed
       /\ ~StartsWithReadKeyword(qText) =>
             qExec.payload = "message" /\ qExec.committed
       /\ qHelper = "read" => qExec.payload = "results"
       /\ qHelper = "write" => qExec.payload = "message"

\* C10: the supervisor returns only after the language model was invoked, with
\* the message its response determines, also when schema retrieval failed;
\* while it waits for the response it holds a schema context.
C10_SchemaFailureNotFatal ==
    /\ SupDone =>
          /\ response # NoResponse
          /\ Decomposition = SupervisorOutput(response)
    /\ supPc \in {"llm", "parse"} => "sql_schema" \in DOMAIN schema_context

\* the language model has answered a supervisor whose schema retrieval failed
C10_Witness ==
    /\ supPc = "parse"
    /\ response # NoResponse
    /\ \/ schema_context.sql_schema = "Error retrieving SQL schema"
       \/ schema_context.nosql_schemas = "{}"

\* C11: each executor stage that has started took the supervisor's message as
\* its analysis, whichever stage ran or finished first; so after a
\* decomposition that carries a task list the SQL stage never returns a
\* batch-level error, and the NoSQL stage returns one only when its agent
\* could not be constructed, never for having read the other stage's report.
C11_StagesReadDecomposition ==
    /\ sqlPc # "wait" => sql_task_analysis = Decomposition
    /\ nosqlPc # "wait" => nosql_task_analysis = Decomposition
    /\ (Emitted /\ sqlPc = "done") => ~IsErrorObject(sqlOut)
    /\ (Emitted /\ nosqlPc = "done" /\ IsErrorObject(nosqlOut)) =>
          "nosql" \notin openConns

\* both stages ran to their reports on a decomposition with work for each of
\* them, and the step they share has ended
C11_Witness ==
    /\ Emitted
    /\ BothReported
    /\ graphPc = "invalid_update"
    /\ Len(sql_tasks) > 0
    /\ Len(nosql_tasks) > 0
    /\ sql_task_analysis = Decomposition
    /\ nosql_task_analysis = Decomposition

====
